---------------------------- MODULE Spec2Model ----------------------------
(***************************************************************************)
(* Model of the LINQ scoring agent: the chunkers of src/scoring/utils.py,  *)
(* the extraction / filtering fan-out and fan-in of src/scoring/fetch.py,  *)
(* the provider clients of src/scoring/api_fetcher.py and the resumable    *)
(* batch driver of run.py.                                                 *)
(*                                                                         *)
(* A Python str is modelled as a sequence of one-character strings, a      *)
(* Python list as a sequence.  The specifications share the variables:     *)
(*   SpecSplit  the two chunkers applied to bounded inputs,                *)
(*   SpecStage  one call of the extraction or of the filtering stage,      *)
(*   SpecPipe   an extraction call chained into a filtering call,          *)
(*   SpecRun    the batch driver over an output file and a dataset,        *)
(*   SpecOrchestrator  the behaviours of SpecRun and of SpecPipe.          *)
(***************************************************************************)
EXTENDS Integers, Sequences, FiniteSets, TLC

VARIABLES
    \* ---- SpecSplit: one chunker call
    splitPc,      \* "input" | "list_done" | "text_done" | "raised"
    lst,          \* argument lst of split_list_into_n
    text,         \* argument text of split_transcript_into_n
    n,            \* argument n of either chunker
    parts,        \* the returned list
    \* ---- SpecStage: one call of fetch_extracted_output or of
    \*      fetch_filtered_output
    stage,            \* "call_extract" | "extracting" | "extracted" |
                      \* "call_filter" | "filtering" | "filtered" | "raised"
    transcript,       \* argument text of fetch_extracted_output
    quotes,           \* argument quotes of fetch_filtered_output
    extraction_type,  \* "overall" | "theme"
    theme,            \* the theme string, or None
    fetch_type,       \* argument fetch_type of the call
    run_fetch_type,   \* argument fetch_type of main and _main of run.py
    num_split,        \* argument num_split of the call
    tasks,            \* the chunk tasks of the running call, in launch order
    outerRet,         \* per outer task: None, or what it returned
    doneOrder,        \* ids of the chunk tasks in the order they completed
    extract_result,   \* what fetch_extracted_output returned, or None
    filter_result,    \* what fetch_filtered_output returned, or None
    callLog,          \* every provider request issued, in order
    fileWrites,       \* every write of extract.txt / filter.txt, in order
    \* ---- SpecRun: one run of main over an output file and a dataset
    runPc,              \* "start" | "prelude" | "process_overall" |
                        \* "extracting" | "filtering" | "save" | "done" |
                        \* "aborted"
    outfile,            \* the lines of <file_name>_overall.jsonl, in order
    startLines,         \* how many lines the file had when the run started
    dataset,            \* what get_dataset returns, in order
    processed_tickers,  \* processed_tickers["overall"]
    filtered_dataset,   \* the examples main loops over
    loopIndex,          \* position of the loop in filtered_dataset
    overall_result,     \* overall_result of the running _main
    stageLog,           \* every stage call of the run, in order
    theme_outfiles      \* per theme key, the lines of <file_name>_<key>.jsonl

splitVars == <<splitPc, lst, text, n, parts>>

stageInputs == <<transcript, quotes, extraction_type, theme, fetch_type,
                 run_fetch_type, num_split>>

stageVars == <<stage, transcript, quotes, extraction_type, theme, fetch_type,
               run_fetch_type, num_split, tasks, outerRet, doneOrder, extract_result,
               filter_result, callLog, fileWrites>>

runVars == <<runPc, outfile, startLines, dataset, processed_tickers,
             filtered_dataset, loopIndex, overall_result, stageLog,
             theme_outfiles>>

vars == <<splitPc, lst, text, n, parts,
          stage, transcript, quotes, extraction_type, theme, fetch_type,
          run_fetch_type, num_split, tasks, outerRet, doneOrder, extract_result,
          filter_result, callLog, fileWrites,
          runPc, outfile, startLines, dataset, processed_tickers,
          filtered_dataset, loopIndex, overall_result, stageLog,
          theme_outfiles>>

-----------------------------------------------------------------------------
(* Bounds of the model *)

\* longest list handed to split_list_into_n
MaxListLen == 4
\* longest text (in characters) handed to split_transcript_into_n
MaxTextLen == 4
\* largest n handed to a chunker
MaxN == 4
\* most lines of a short transcript handed to the extraction stage
MaxLines == 2
\* largest num_split handed to a stage
MaxSplit == 2
\* most quotes of a short quote list handed to the filtering stage
MaxQuotes == 3
\* most lines of the output file when a run starts
MaxFileLines == 2
\* most transcripts of the dataset
MaxDataset == 2

-----------------------------------------------------------------------------
(* Python primitives *)

NL == "\n"

Min(a, b) == IF a < b THEN a ELSE b

Max(a, b) == IF a > b THEN a ELSE b

\* seq[lo:hi] for 0 <= lo, 0 <= hi: Python clamps both ends to len(seq)
Slice(seq, lo, hi) == SubSeq(seq, Min(lo, Len(seq)) + 1, Min(hi, Len(seq)))

\* the concatenation of a sequence of sequences, in order
RECURSIVE Concat(_)
Concat(ss) == IF ss = <<>> THEN <<>> ELSE Head(ss) \o Concat(Tail(ss))

\* position of the first sep in s, 0 when there is none
RECURSIVE FindSep(_, _, _)
FindSep(s, sep, i) ==
    IF i > Len(s) THEN 0
    ELSE IF s[i] = sep THEN i
    ELSE FindSep(s, sep, i + 1)

\* s.split(sep): always at least one field; "" gives [""]
RECURSIVE StrSplit(_, _)
StrSplit(s, sep) ==
    LET p == FindSep(s, sep, 1)
    IN  IF p = 0 THEN <<s>>
        ELSE <<SubSeq(s, 1, p - 1)>> \o StrSplit(SubSeq(s, p + 1, Len(s)), sep)

\* sep.join(fields)
RECURSIVE StrJoin(_, _)
StrJoin(fields, sep) ==
    IF fields = <<>> THEN <<>>
    ELSE IF Len(fields) = 1 THEN fields[1]
    ELSE fields[1] \o <<sep>> \o StrJoin(Tail(fields), sep)

\* all sequences over S of length at most k
SeqsUpTo(S, k) == UNION {[1..m -> S] : m \in 0..k}

-----------------------------------------------------------------------------
(* src/scoring/utils.py: the chunkers *)

\* faulty variant: the remainder after the equal division is dropped
split_transcript_drop_remaining(t, k) ==
    LET sections == StrSplit(t, NL)
        split_size == Len(sections) \div k
    IN  [i \in 1..k |->
            StrJoin(Slice(sections, (i - 1) * split_size, i * split_size), NL)]

\* split_transcript_into_n for n >= 1; n < 1 raises ValueError (SplitTranscript)
split_transcript_into_n(t, k) ==
    IF k = 1 THEN <<t>>
    ELSE
      LET sections == StrSplit(t, NL)
          total_length == Len(sections)
          split_size == total_length \div k
          equal == [i \in 1..k |->
                      Slice(sections, (i - 1) * split_size, i * split_size)]
          remaining_sections == Slice(sections, k * split_size, total_length)
          groups == IF remaining_sections # <<>>
                    THEN [equal EXCEPT ![k] = @ \o remaining_sections]
                    ELSE equal
      IN  [i \in 1..k |-> StrJoin(groups[i], NL)]

\* faulty variant: the slice bounds use i * (len // n), which loses the last elements
split_list_floor_first(l, k) ==
    LET len_list == Len(l)
        sub(i) == Slice(l, i * (len_list \div k), (i + 1) * (len_list \div k))
    IN  SelectSeq([i \in 1..k |-> sub(i - 1)], LAMBDA s : s # <<>>)

\* split_list_into_n: floor-boundary slices, the empty ones dropped
split_list_into_n(l, k) ==
    LET len_list == Len(l)
        sub(i) == Slice(l, (i * len_list) \div k, ((i + 1) * len_list) \div k)
    IN  SelectSeq([i \in 1..k |-> sub(i - 1)], LAMBDA s : s # <<>>)


-----------------------------------------------------------------------------
(* src/scoring/utils.py: the sentence segmenter *)

\* nltk's sent_tokenize on one line: a sentence ends at each "."; an empty
\* line has no sentence
RECURSIVE sent_tokenize(_)
sent_tokenize(line) ==
    IF line = <<>> THEN <<>>
    ELSE LET p == FindSep(line, ".", 1)
         IN  IF p = 0 THEN <<line>>
             ELSE <<SubSeq(line, 1, p)>>
                     \o sent_tokenize(SubSeq(line, p + 1, Len(line)))

\* get_sentences: split on "\n", then tokenize each line
get_sentences(t) ==
    LET text_sentences == StrSplit(t, NL)
    IN  Concat([i \in 1..Len(text_sentences) |->
                    sent_tokenize(text_sentences[i])])

-----------------------------------------------------------------------------
(* src/scoring/fetch.py: chunking inside one stage call *)

\* default of the max_size parameter, which no caller overrides
max_size == 20

\* faulty variant: an empty list still gives one, empty, chunk
SizedChunksNeverNone(items) ==
    [c \in 1..Max(1, (Len(items) + max_size - 1) \div max_size) |->
        [start |-> (c - 1) * max_size,
         items |-> Slice(items, (c - 1) * max_size, c * max_size)]]

\* [items[start : start + max_size] for start in range(0, len(items), max_size)]
\* each chunk with the index of its first item
SizedChunks(items) ==
    [c \in 1..((Len(items) + max_size - 1) \div max_size) |->
        [start |-> (c - 1) * max_size,
         items |-> Slice(items, (c - 1) * max_size, c * max_size)]]

\* the chunk's index -> text mapping: {i: text_dict[i] for i in range(start, ...)}
chunk_text_dict(task) ==
    [i \in task.start..(task.start + Len(task.items) - 1) |->
        task.items[i - task.start + 1]]

\* faulty variant: the returned index is looked up from the chunk's own position 0
quotes_by_local_position(task, indices) ==
    LET kept == SelectSeq(indices, LAMBDA i : i >= 0 /\ i < Len(task.items))
    IN  [k \in 1..Len(kept) |-> task.items[kept[k] + 1]]

\* faulty variant: the chunk task returns the lines of its prompt,
\* "**Quote" and the sentence, instead of the sentences
extracted_prompt_lines(task, indices) ==
    LET d == chunk_text_dict(task)
        kept == SelectSeq(indices, LAMBDA i : i \in DOMAIN d)
    IN  [k \in 1..Len(kept) |->
            <<"*", "*", "Q", "u", "o", "t", "e", " ">> \o d[kept[k]]]

\* [chunk_text_dict[i] for i in extracted_output.indices if i in chunk_text_dict]
extracted_quotes(task, indices) ==
    LET d == chunk_text_dict(task)
        kept == SelectSeq(indices, LAMBDA i : i \in DOMAIN d)
    IN  [k \in 1..Len(kept) |-> d[kept[k]]]

\* chunk_quotes[i]: a negative i counts from the end
PyIndex(items, i) == IF i >= 0 THEN items[i + 1] ELSE items[Len(items) + i + 1]

\* faulty variant: the related quotes are picked in the order of the chunk,
\* not in the order of related_indices
filtered_quotes_in_chunk_order(items, related_indices) ==
    SelectSeq(items, LAMBDA q :
        \E k \in 1..Len(related_indices) :
            /\ related_indices[k] >= 0 /\ related_indices[k] < Len(items)
            /\ items[related_indices[k] + 1] = q)

\* [chunk_quotes[i] for i in filtered_output.related_indices if i < len(chunk_quotes)]
\* (an i < -len raises IndexError: ChunkFromParsed)
filtered_quotes(items, related_indices) ==
    LET kept == SelectSeq(related_indices, LAMBDA i : i < Len(items))
    IN  [k \in 1..Len(kept) |-> PyIndex(items, kept[k])]

\* the chunks of every outer task of fetch_extracted_output, per outer task
ExtractionChunks ==
    LET split_texts == split_transcript_into_n(transcript, num_split)
    IN  [o \in 1..Len(split_texts) |-> SizedChunks(get_sentences(split_texts[o]))]

-----------------------------------------------------------------------------
(* src/scoring/api_fetcher.py and fetch_parsed: provider requests *)

FetchTypes == {"groq", "furiosa", "openai"}

\* the first request fetch_parsed issues for a fetch_type
FirstRequest(ft) ==
    CASE ft = "groq"    -> [client |-> "groq", method |-> "fetch_chat_completion"]
      [] ft = "furiosa" -> [client |-> "furiosa", method |-> "fetch_chat_completion"]
      [] OTHER          -> [client |-> "openai", method |-> "fetch_parsed_completion"]

\* position of a chunk task whose first request is in flight
FirstPc(ft) ==
    CASE ft = "groq" -> "groq" [] ft = "furiosa" -> "furiosa" [] OTHER -> "openai_parsed"

\* retry_fetch(0.01, 1) stands above every client method as an expression
\* statement, not as a decorator: no method is wrapped
retry_applied == FALSE

\* stop_after_attempt(max_retries) of the retry_fetch(0.01, 1) expressions
max_retries == 1

\* a chunk task that has no parsed output (yet)
NoOutput == [parsed |-> FALSE]

\* a request as it is issued; answer is the parsed output it came back with
NewCall(req, t, phase) ==
    [client |-> req.client, method |-> req.method, task |-> t, phase |-> phase,
     attempts |-> 1, transport |-> "inflight", outcome |-> "pending",
     answer |-> NoOutput]

\* how many requests a client has been sent
Calls(client) == Cardinality({k \in 1..Len(callLog) : callLog[k].client = client})

-----------------------------------------------------------------------------
(* Chunk tasks *)

\* the chunk tasks of a stage call in launch order: outer task 1's chunks,
\* then outer task 2's, ..., each with its first request issued
LaunchTasks(chunks, ft, firstCall) ==
    LET flat == Concat([o \in 1..Len(chunks) |->
                    [j \in 1..Len(chunks[o]) |->
                        [o |-> o, start |-> chunks[o][j].start,
                         items |-> chunks[o][j].items]]])
    IN  [t \in 1..Len(flat) |->
            [o |-> flat[t].o, start |-> flat[t].start, items |-> flat[t].items,
             pc |-> FirstPc(ft), call |-> firstCall + t, out |-> NoOutput,
             raised |-> FALSE, quotes |-> <<>>, scores |-> <<>>, usage |-> {}]]

LaunchCalls(newTasks, ft, phase) ==
    [t \in 1..Len(newTasks) |-> NewCall(FirstRequest(ft), t, phase)]

TasksOf(o) == {t \in 1..Len(tasks) : tasks[t].o = o}

\* what each chunk task of outer task o returned, completion order
ChunkResultsByCompletion(o) ==
    LET mine == SelectSeq(doneOrder, LAMBDA t : tasks[t].o = o)
    IN  [k \in 1..Len(mine) |-> tasks[mine[k]]]

\* asyncio.gather: what each chunk task of outer task o returned, in the
\* order the tasks were handed to gather
ChunkResults(o) ==
    LET mine == SelectSeq([t \in 1..Len(tasks) |-> t], LAMBDA t : tasks[t].o = o)
    IN  [k \in 1..Len(mine) |-> tasks[mine[k]]]

\* the aggregation loops of _fetch_extracted_output / _fetch_filtered_output
InnerAggregate(o) ==
    LET results == ChunkResults(o)
    IN  [done |-> TRUE,
         quotes |-> Concat([k \in 1..Len(results) |-> results[k].quotes]),
         sentiment_scores |-> Concat([k \in 1..Len(results) |-> results[k].scores]),
         usage |-> [k \in 1..Len(results) |-> results[k].usage]]

\* an outer task before its chunk tasks are joined
OuterPending == [done |-> FALSE]

\* an outer task with no chunk: gather() of nothing is done at once
OuterEmpty ==
    [done |-> TRUE, quotes |-> <<>>, sentiment_scores |-> <<>>, usage |-> <<>>]

\* the aggregation loops of fetch_extracted_output / fetch_filtered_output
OuterAggregate ==
    [set |-> TRUE,
     quotes |-> Concat([o \in 1..Len(outerRet) |-> outerRet[o].quotes]),
     sentiment_scores |->
         Concat([o \in 1..Len(outerRet) |-> outerRet[o].sentiment_scores]),
     usages |-> [o \in 1..Len(outerRet) |-> outerRet[o].usage]]

\* the chunk task returns (quotes, [scores,] usage) from its try block
ChunkReturns(t, out, q, s, u) ==
    /\ tasks' = [tasks EXCEPT ![t].pc = "done", ![t].out = out,
                              ![t].quotes = q, ![t].scores = s, ![t].usage = u]
    /\ doneOrder' = Append(doneOrder, t)
    /\ UNCHANGED stage

\* faulty variant: the chunk task has no except branch, the exception reaches the
\* caller of the stage through both gathers
ChunkPropagates(t) ==
    /\ stage' = "raised"
    /\ UNCHANGED <<tasks, doneOrder>>

\* an exception inside the chunk task's try block: "except Exception" prints
\* it and returns [], {} (extraction) or [], [], {} (filtering)
ChunkCatches(t) ==
    /\ tasks' = [tasks EXCEPT ![t].pc = "done", ![t].raised = TRUE]
    /\ doneOrder' = Append(doneOrder, t)
    /\ UNCHANGED stage

\* usage dict of a successful fetch_parsed: its keys
UsageKeys(ft) == IF ft = "openai" THEN {"openai"} ELSE {ft, "openai"}

\* faulty variant: the filtering chunk task hands the fetch_type ft of its
\* call to fetch_parsed
FilterChunkFetchTypeOfCaller(ft) == ft

\* the filtering chunk task of a call with fetch_type ft passes the literal
\* "openai"
FilterChunkFetchType(ft) == "openai"

\* the fetch_type a chunk task of the running call hands to fetch_parsed
ChunkFetchType(phase) ==
    IF phase = "extracting" THEN fetch_type ELSE FilterChunkFetchType(fetch_type)

-----------------------------------------------------------------------------
(* Values the other specifications give the variables they do not use *)

None == "None"

\* a Result that has not been returned yet
NoResult == [set |-> FALSE]

StageUnused ==
    /\ stage = "unused"
    /\ transcript = <<>> /\ quotes = <<>>
    /\ extraction_type = "overall" /\ theme = None
    /\ fetch_type = "openai" /\ run_fetch_type = "openai" /\ num_split = 1
    /\ tasks = <<>> /\ outerRet = <<>> /\ doneOrder = <<>>
    /\ extract_result = NoResult /\ filter_result = NoResult
    /\ callLog = <<>> /\ fileWrites = <<>>

SplitUnused ==
    /\ splitPc = "unused" /\ lst = <<>> /\ text = <<>> /\ n = 1
    /\ parts = <<>>

\* overall_result = {}: no record
NoRecord == [custom_id |-> <<>>, kind |-> "empty"]

\* the keys of theme_dict, the theme table of the run
ThemeKeys == {"theme_1"}

RunUnused ==
    /\ runPc = "unused"
    /\ outfile = <<>> /\ startLines = 0 /\ dataset = <<>>
    /\ processed_tickers = {} /\ filtered_dataset = <<>> /\ loopIndex = 0
    /\ overall_result = NoRecord /\ stageLog = <<>>
    /\ theme_outfiles = [key \in ThemeKeys |-> <<>>]

-----------------------------------------------------------------------------
(* SpecSplit: each chunker applied once to an input drawn from bounded sets *)

ListItems == {"x", "y"}

TextChars == {"a", "b", NL}

InitSplit ==
    /\ splitPc = "input"
    /\ n \in 0..MaxN
    /\ \/ lst \in SeqsUpTo(ListItems, MaxListLen) /\ text = <<>>
       \/ text \in SeqsUpTo(TextChars, MaxTextLen) /\ lst = <<>>
    /\ parts = <<>>
    /\ StageUnused
    /\ RunUnused

\* split_list_into_n(lst, n): range(0) is empty, so n = 0 returns []
SplitList ==
    /\ splitPc = "input"
    /\ splitPc' = "list_done"
    /\ parts' = IF n = 0 THEN <<>> ELSE split_list_into_n(lst, n)
    /\ UNCHANGED <<lst, text, n>>
    /\ UNCHANGED <<stageVars, runVars>>

\* split_transcript_into_n(text, n)
SplitTranscript ==
    /\ splitPc = "input"
    /\ IF n < 1
       THEN splitPc' = "raised" /\ parts' = <<>>
       ELSE splitPc' = "text_done" /\ parts' = split_transcript_into_n(text, n)
    /\ UNCHANGED <<lst, text, n>>
    /\ UNCHANGED <<stageVars, runVars>>

NextSplit == SplitList \/ SplitTranscript

SpecSplit == InitSplit /\ [][NextSplit]_vars

-----------------------------------------------------------------------------
(* SpecStage: one call of fetch_extracted_output or fetch_filtered_output *)

Letters == <<"a", "b", "c", "d", "e", "f", "g", "h", "i", "j", "k", "l", "m",
             "n", "o", "p", "q", "r", "s", "t", "u", "v", "w", "x", "y", "z">>

\* a transcript of k one-letter lines, all different
LetterLines(k) == StrJoin([i \in 1..k |-> <<Letters[i]>>], NL)

\* transcripts: up to MaxLines short lines, one of empty lines only, one
\* with two sentences on a line and an empty line, and one whose sentences
\* overflow one inner chunk
StageTexts ==
    {LetterLines(k) : k \in 0..MaxLines}
        \cup {<<NL>>}
        \cup {<<"a", ".", "b", NL, NL, "c">>}
        \cup {LetterLines(max_size + 2)}

\* indices a provider may return for an extraction chunk: none, in range, out
\* of order, negative, beyond the chunk, and a key of a second inner chunk
ExtIndexLists ==
    {<<>>, <<0>>, <<1, 0>>, <<-1, 2>>, <<0, max_size + 1>>}

\* ExtractedOutput objects a provider may return
ExtractedOutputs == {[parsed |-> TRUE, indices |-> ix] : ix \in ExtIndexLists}

\* the numbers the prompt gives the sentences of a chunk, in order
AllKeys(task) == [k \in 1..Len(task.items) |-> task.start + k - 1]

\* what a provider may return for an extraction chunk: one of the lists
\* above, or every sentence of the chunk
ExtractedOutputsFor(task) ==
    ExtractedOutputs \cup {[parsed |-> TRUE, indices |-> AllKeys(task)]}

FilterOutput(r, sc) ==
    [parsed |-> TRUE, related_indices |-> r, sentiment_scores |-> sc]

\* what a provider may return for a filtering chunk: aligned lists, an index
\* beyond the chunk, negative indices, a score outside {-1, 0, 1}, and lists
\* of different lengths
FilterOutputs ==
    {FilterOutput(<<>>, <<>>), FilterOutput(<<0>>, <<1>>),
     FilterOutput(<<1, 0>>, <<-1, 1>>), FilterOutput(<<0, 2>>, <<1, 0>>),
     FilterOutput(<<-1>>, <<1>>), FilterOutput(<<-3>>, <<0>>),
     FilterOutput(<<0>>, <<2>>), FilterOutput(<<0, 1>>, <<1>>)}

\* k one-letter quotes, all different
LetterQuotes(k) == [i \in 1..k |-> <<Letters[i]>>]

\* quote lists: up to MaxQuotes quotes, and one that overflows an inner chunk
StageQuoteLists ==
    {LetterQuotes(k) : k \in 0..MaxQuotes} \cup {LetterQuotes(max_size + 2)}

\* the arguments of the call
InitStage ==
    /\ \/ stage = "call_extract" /\ transcript \in StageTexts /\ quotes = <<>>
       \/ stage = "call_filter" /\ quotes \in StageQuoteLists /\ transcript = <<>>
    /\ fetch_type \in FetchTypes /\ run_fetch_type = fetch_type
    /\ \/ extraction_type = "overall" /\ theme = None
       \/ extraction_type = "theme" /\ theme \in {None, "T"}
    /\ num_split \in 1..MaxSplit
    /\ tasks = <<>> /\ outerRet = <<>> /\ doneOrder = <<>>
    /\ extract_result = NoResult /\ filter_result = NoResult
    /\ callLog = <<>> /\ fileWrites = <<>>
    /\ SplitUnused
    /\ RunUnused

\* print(messages, file=open("extract.txt", "w")) of the extraction chunk
\* task, open("filter.txt", "w") of the filtering chunk task
PromptFile(phase) == IF phase = "extracting" THEN "extract.txt" ELSE "filter.txt"

\* every chunk task truncates the file and writes its prompt before its first
\* request
PromptWrites(newTasks, phase) ==
    [t \in 1..Len(newTasks) |->
        [file |-> PromptFile(phase), task |-> t, phase |-> phase]]

\* faulty variant: fetch_chunk does not look at the theme, None goes into the
\* prompt
ThemeNotChecked == FALSE

\* fetch_chunk raises ValueError("No theme specified") before its try block
NoThemeSpecified == extraction_type = "theme" /\ theme = None

\* a stage call up to the first suspension of its chunk tasks: the outer and
\* the inner gather start every chunk task, each issues its first request
Launch(chunks, ft, phase) ==
    LET newTasks == LaunchTasks(chunks, ft, Len(callLog))
    IN  IF NoThemeSpecified /\ newTasks # <<>>
        THEN /\ stage' = "raised"
             /\ UNCHANGED <<tasks, outerRet, doneOrder, callLog, fileWrites>>
        ELSE /\ stage' = phase
             /\ tasks' = newTasks
             /\ outerRet' = [o \in 1..Len(chunks) |->
                                IF chunks[o] = <<>> THEN OuterEmpty ELSE OuterPending]
             /\ doneOrder' = <<>>
             /\ callLog' = callLog \o LaunchCalls(newTasks, ft, phase)
             /\ fileWrites' = fileWrites \o PromptWrites(newTasks, phase)

\* fetch_extracted_output up to the await of its gather
StartExtraction ==
    /\ stage = "call_extract"
    /\ Launch(ExtractionChunks, ChunkFetchType("extracting"), "extracting")
    /\ UNCHANGED <<extract_result, filter_result>>
    /\ UNCHANGED stageInputs
    /\ UNCHANGED <<splitVars, runVars>>

Awaiting(t) == stage \in {"extracting", "filtering"} /\ tasks[t].pc # "done"

\* what the chunk task makes of a parsed output; parsed is None (or usage is
\* None) raises AttributeError, an index below -len raises IndexError: both
\* are caught by the chunk task
ChunkFromParsed(t, out) ==
    IF stage = "extracting"
    THEN ChunkReturns(t, out, extracted_quotes(tasks[t], out.indices), <<>>,
                      UsageKeys(ChunkFetchType(stage)))
    ELSE IF \E k \in 1..Len(out.related_indices) :
                out.related_indices[k] < 0 - Len(tasks[t].items)
         THEN ChunkCatches(t)
         ELSE ChunkReturns(t, out,
                           filtered_quotes(tasks[t].items, out.related_indices),
                           out.sentiment_scores, UsageKeys(ChunkFetchType(stage)))

\* the OpenAI request of a chunk task returns a completion with a parsed output
ParsedCompletionReturns(t) ==
    /\ Awaiting(t)
    /\ tasks[t].pc \in {"openai_parsed", "canon"}
    /\ \E out \in (IF stage = "extracting" THEN ExtractedOutputsFor(tasks[t])
                   ELSE FilterOutputs) :
          /\ ChunkFromParsed(t, out)
          /\ callLog' = [callLog EXCEPT ![tasks[t].call].transport = "returned",
                                        ![tasks[t].call].outcome = "returned",
                                        ![tasks[t].call].answer = out]
    /\ UNCHANGED <<outerRet, extract_result, filter_result>>
    /\ UNCHANGED <<stageInputs, fileWrites>>
    /\ UNCHANGED <<splitVars, runVars>>

\* the OpenAI request returns a completion whose parsed output is None: the
\* chunk task's attribute access raises, its except branch returns empty
UnparsedCompletionReturns(t) ==
    /\ Awaiting(t)
    /\ tasks[t].pc \in {"openai_parsed", "canon"}
    /\ ChunkCatches(t)
    /\ callLog' = [callLog EXCEPT ![tasks[t].call].transport = "returned",
                                  ![tasks[t].call].outcome = "returned"]
    /\ UNCHANGED <<outerRet, extract_result, filter_result>>
    /\ UNCHANGED <<stageInputs, fileWrites>>
    /\ UNCHANGED <<splitVars, runVars>>

\* faulty variant: the canonicalizer request is issued while the Groq request
\* is still open
GroqReturnsKeepsRequestOpen(t) ==
    /\ Awaiting(t)
    /\ tasks[t].pc = "groq"
    /\ tasks' = [tasks EXCEPT ![t].pc = "canon", ![t].call = Len(callLog) + 1]
    /\ callLog' = Append(callLog,
                         NewCall([client |-> "openai", method |-> "fetch_parsed_output"],
                                 t, stage))
    /\ UNCHANGED <<stage, outerRet, doneOrder, extract_result, filter_result>>
    /\ UNCHANGED <<stageInputs, fileWrites>>
    /\ UNCHANGED <<splitVars, runVars>>

\* the Groq request returns raw content: fetch_parsed hands it to the OpenAI
\* canonicalizer, fetch_parsed_output
GroqReturns(t) ==
    /\ Awaiting(t)
    /\ tasks[t].pc = "groq"
    /\ tasks' = [tasks EXCEPT ![t].pc = "canon", ![t].call = Len(callLog) + 1]
    /\ callLog' = Append([callLog EXCEPT ![tasks[t].call].transport = "returned",
                                         ![tasks[t].call].outcome = "returned"],
                         NewCall([client |-> "openai", method |-> "fetch_parsed_output"],
                                 t, stage))
    /\ UNCHANGED <<stage, outerRet, doneOrder, extract_result, filter_result>>
    /\ UNCHANGED <<stageInputs, fileWrites>>
    /\ UNCHANGED <<splitVars, runVars>>

\* the Furiosa POST returns: "await response.json()" awaits a plain value and
\* raises TypeError, which the chunk task catches
FuriosaPostReturns(t) ==
    /\ Awaiting(t)
    /\ tasks[t].pc = "furiosa"
    /\ ChunkCatches(t)
    /\ callLog' = [callLog EXCEPT ![tasks[t].call].transport = "returned",
                                  ![tasks[t].call].outcome = "raised"]
    /\ UNCHANGED <<outerRet, extract_result, filter_result>>
    /\ UNCHANGED <<stageInputs, fileWrites>>
    /\ UNCHANGED <<splitVars, runVars>>

\* what a client method does when its transport raises: wrapped by retry_fetch
\* it is tried again up to max_retries times and then handle_max_retries
\* returns DEFAULT_EMPTY_PARSED_COMPLETION; not wrapped, it raises
OnTransportError(call) ==
    IF ~retry_applied THEN "raised"
    ELSE IF call.attempts < max_retries THEN "retry"
    ELSE "default"

\* the transport of a chunk task's request raises
TransportRaises(t) ==
    /\ Awaiting(t)
    /\ LET c == tasks[t].call
           what == OnTransportError(callLog[c])
       IN  CASE what = "retry" ->
                  /\ callLog' = [callLog EXCEPT ![c].attempts = @ + 1]
                  /\ UNCHANGED <<stage, tasks, doneOrder>>
             [] what = "default" /\ tasks[t].pc = "groq" ->
                  \* content None goes on to the canonicalizer
                  /\ tasks' = [tasks EXCEPT ![t].pc = "canon",
                                            ![t].call = Len(callLog) + 1]
                  /\ callLog' = Append(
                        [callLog EXCEPT ![c].transport = "raised",
                                        ![c].outcome = "default"],
                        NewCall([client |-> "openai",
                                 method |-> "fetch_parsed_output"], t, stage))
                  /\ UNCHANGED <<stage, doneOrder>>
             [] OTHER ->
                  \* the exception, or the AttributeError on the default
                  \* completion (parsed and usage are None), is caught
                  /\ ChunkCatches(t)
                  /\ callLog' = [callLog EXCEPT ![c].transport = "raised",
                                                ![c].outcome = what]
    /\ UNCHANGED <<outerRet, extract_result, filter_result>>
    /\ UNCHANGED <<stageInputs, fileWrites>>
    /\ UNCHANGED <<splitVars, runVars>>

\* faulty variant: the gather is left as soon as one chunk task has returned
InnerJoinEarly(o) ==
    /\ stage \in {"extracting", "filtering"}
    /\ ~outerRet[o].done
    /\ \E t \in TasksOf(o) : tasks[t].pc = "done"
    /\ outerRet' = [outerRet EXCEPT ![o] = InnerAggregate(o)]
    /\ UNCHANGED <<stage, tasks, doneOrder, extract_result, filter_result,
                   callLog>>
    /\ UNCHANGED <<stageInputs, fileWrites>>
    /\ UNCHANGED <<splitVars, runVars>>

\* _fetch_extracted_output / _fetch_filtered_output after its gather: every
\* chunk task of outer task o has returned
InnerJoin(o) ==
    /\ stage \in {"extracting", "filtering"}
    /\ ~outerRet[o].done
    /\ \A t \in TasksOf(o) : tasks[t].pc = "done"
    /\ outerRet' = [outerRet EXCEPT ![o] = InnerAggregate(o)]
    /\ UNCHANGED <<stage, tasks, doneOrder, extract_result, filter_result,
                   callLog>>
    /\ UNCHANGED <<stageInputs, fileWrites>>
    /\ UNCHANGED <<splitVars, runVars>>

\* fetch_extracted_output after its gather: every outer task has returned
ExtractJoin ==
    /\ stage = "extracting"
    /\ \A o \in 1..Len(outerRet) : outerRet[o].done
    /\ extract_result' = OuterAggregate
    /\ stage' = "extracted"
    /\ UNCHANGED <<tasks, outerRet, doneOrder, filter_result, callLog>>
    /\ UNCHANGED <<stageInputs, fileWrites>>
    /\ UNCHANGED <<splitVars, runVars>>

\* the chunks of every outer task of fetch_filtered_output
FilteringChunksOf(qs, k) ==
    LET split_quotes == split_list_into_n(qs, k)
    IN  [o \in 1..Len(split_quotes) |-> SizedChunks(split_quotes[o])]

\* the chunks of the running fetch_filtered_output call
FilteringChunks == FilteringChunksOf(quotes, num_split)

\* fetch_filtered_output up to the await of its gather
StartFiltering ==
    /\ stage = "call_filter"
    /\ Launch(FilteringChunks, ChunkFetchType("filtering"), "filtering")
    /\ UNCHANGED <<extract_result, filter_result>>
    /\ UNCHANGED stageInputs
    /\ UNCHANGED <<splitVars, runVars>>

\* fetch_filtered_output after its gather
FilterJoin ==
    /\ stage = "filtering"
    /\ \A o \in 1..Len(outerRet) : outerRet[o].done
    /\ filter_result' = OuterAggregate
    /\ stage' = "filtered"
    /\ UNCHANGED <<tasks, outerRet, doneOrder, extract_result, callLog>>
    /\ UNCHANGED <<stageInputs, fileWrites>>
    /\ UNCHANGED <<splitVars, runVars>>

NextStage ==
    \/ StartExtraction
    \/ \E t \in 1..Len(tasks) : ParsedCompletionReturns(t)
    \/ \E t \in 1..Len(tasks) : UnparsedCompletionReturns(t)
    \/ \E t \in 1..Len(tasks) : GroqReturns(t)
    \/ \E t \in 1..Len(tasks) : FuriosaPostReturns(t)
    \/ \E t \in 1..Len(tasks) : TransportRaises(t)
    \/ \E o \in 1..Len(outerRet) : InnerJoin(o)
    \/ ExtractJoin
    \/ StartFiltering
    \/ FilterJoin

SpecStage == InitStage /\ [][NextStage]_vars

-----------------------------------------------------------------------------
(* SpecPipe: an extraction call and the filtering call made on its quotes, *)
(* as process_overall and process_theme of run.py chain them               *)

\* num_split of the extraction call of run.py
extraction_num_split == 20

\* num_split of the filtering call of run.py
filtering_num_split == 15

\* transcripts short enough to stay in one part under extraction_num_split
ShortTexts == {t \in StageTexts : Len(StrSplit(t, NL)) < extraction_num_split}

\* the arguments of the extraction call: num_split = 1 with any transcript,
\* or run.py's num_split with a short one; process_overall extracts with the
\* literal "openai", process_theme with the fetch_type of the run and a theme
\* from the theme table
InitPipe ==
    /\ stage = "call_extract"
    /\ \/ num_split = 1 /\ transcript \in StageTexts
       \/ num_split = extraction_num_split /\ transcript \in ShortTexts
    /\ quotes = <<>>
    /\ run_fetch_type \in FetchTypes
    /\ \/ extraction_type = "overall" /\ theme = None /\ fetch_type = "openai"
       \/ extraction_type = "theme" /\ theme = "T" /\ fetch_type = run_fetch_type
    /\ tasks = <<>> /\ outerRet = <<>> /\ doneOrder = <<>>
    /\ extract_result = NoResult /\ filter_result = NoResult
    /\ callLog = <<>> /\ fileWrites = <<>>
    /\ SplitUnused
    /\ RunUnused

\* the caller hands the extracted quotes to fetch_filtered_output, which
\* runs up to the await of its gather; process_overall and process_theme
\* both filter with the fetch_type of the run
CallFiltering ==
    /\ stage = "extracted"
    /\ LET qs == extract_result.quotes
           k == IF num_split = extraction_num_split
                THEN filtering_num_split ELSE num_split
       IN  /\ quotes' = qs
           /\ num_split' = k
           /\ Launch(FilteringChunksOf(qs, k),
                     FilterChunkFetchType(run_fetch_type), "filtering")
    /\ fetch_type' = run_fetch_type
    /\ UNCHANGED <<transcript, extraction_type, theme, run_fetch_type,
                   extract_result, filter_result>>
    /\ UNCHANGED <<splitVars, runVars>>

NextPipe ==
    \/ StartExtraction
    \/ \E t \in 1..Len(tasks) : ParsedCompletionReturns(t)
    \/ \E t \in 1..Len(tasks) : UnparsedCompletionReturns(t)
    \/ \E t \in 1..Len(tasks) : GroqReturns(t)
    \/ \E t \in 1..Len(tasks) : FuriosaPostReturns(t)
    \/ \E t \in 1..Len(tasks) : TransportRaises(t)
    \/ \E o \in 1..Len(outerRet) : InnerJoin(o)
    \/ ExtractJoin
    \/ CallFiltering
    \/ FilterJoin

SpecPipe == InitPipe /\ [][NextPipe]_vars

-----------------------------------------------------------------------------
(* SpecRun: run.py, one run of main over an output file and a dataset.     *)
(* A line of the output file is the record json.loads makes of it; what    *)
(* the two stages return to process_overall is an outcome of the           *)
(* environment: a Result, or an exception.                                 *)

\* the file_name argument of main
file_name == <<"b", "a", "t", "c", "h">>

\* the literal "task-" of the custom_id
TaskPrefix == <<"t", "a", "s", "k", "-">>

\* tickers of the dataset: plain ones and a share-class ticker with a hyphen
Tickers == {<<"A", "A", "A">>, <<"B", "R", "K">>, <<"B", "R", "K", "-", "B">>}

\* the event_start_at_et strings of the dataset
EventDates == {<<"2", "0", "2", "3", "-", "0", "1", "-", "0", "5", " ", "0", "0", ":", "0", "0", ":", "0", "0", ".", "0", "0", "0", "0", "0", "0">>}

\* strptime(s, "%Y-%m-%d %H:%M:%S.%f").strftime("%y-%m-%d"): the last two
\* digits of the year, the month and the day
strftime_ymd(event_date_str) == SubSeq(event_date_str, 3, 10)

\* f"task-{ticker}-{date}-{file_name}"
custom_id(ticker, date) ==
    TaskPrefix \o ticker \o <<"-">> \o date \o <<"-">> \o file_name

\* the custom_id _main gives an example
CustomIdOf(example) ==
    custom_id(example.ticker, strftime_ymd(example.event_start_at_et))

\* s.startswith(prefix)
startswith(s, prefix) ==
    Len(s) >= Len(prefix) /\ SubSeq(s, 1, Len(prefix)) = prefix

\* the resume scan of one line: parts = custom_id.split("-"); parts[1]
existing_ticker(cid) == StrSplit(cid, "-")[2]

\* the downstream readers' event date: "20" + parts[2], parts[3] and
\* parts[4].split("_")[0], joined with "-"; no date for a custom_id without
\* "task-" or with fewer than 4 fields
event_date_of(cid) ==
    LET fields == StrSplit(cid, "-")
    IN  IF ~startswith(cid, TaskPrefix) \/ Len(fields) < 4 THEN <<>>
        ELSE <<"2", "0">> \o fields[3] \o <<"-">> \o fields[4] \o <<"-">>
                \o StrSplit(fields[5], "_")[1]

\* the resume scan of the whole file: processed_tickers["overall"]
ScannedTickers(file) ==
    {existing_ticker(file[k].custom_id) :
        k \in {j \in 1..Len(file) :
                  /\ startswith(file[j].custom_id, TaskPrefix)
                  /\ Len(StrSplit(file[j].custom_id, "-")) > 1}}

Examples == [ticker : Tickers, event_start_at_et : EventDates]

\* the records an earlier run may have written: a result or an error record
\* of an example
EarlierRecords ==
    {[custom_id |-> CustomIdOf(e), kind |-> k] :
        e \in Examples, k \in {"result", "error"}}

\* a theme file as an earlier run may have left it: empty, or with the
\* record of one example
EarlierThemeFiles ==
    {<<>>} \cup {<<[custom_id |-> CustomIdOf(e), kind |-> "result"]>> :
                    e \in {x \in Examples : x.ticker = <<"A", "A", "A">>}}

\* the resume scan of the theme files: processed_tickers[theme_key]
processed_theme_tickers(key) == ScannedTickers(theme_outfiles[key])

\* theme_results of the running _main: {} when _main starts, and
\* tasks = [process_overall()] schedules nothing that writes it
theme_results == [key \in {} |-> NoRecord]

InitRun ==
    /\ runPc = "start"
    /\ outfile \in SeqsUpTo(EarlierRecords, MaxFileLines)
    /\ startLines = Len(outfile)
    /\ dataset \in SeqsUpTo(Examples, MaxDataset)
    /\ processed_tickers = {} /\ filtered_dataset = <<>> /\ loopIndex = 0
    /\ overall_result = NoRecord /\ stageLog = <<>>
    /\ theme_outfiles \in [ThemeKeys -> EarlierThemeFiles]
    /\ StageUnused
    /\ SplitUnused

\* the example the loop of main is at
example == filtered_dataset[loopIndex]

\* main up to its loop: scan the output file, load and filter the dataset
LoadProcessed ==
    /\ runPc = "start"
    /\ LET scanned == ScannedTickers(outfile)
           todo == SelectSeq(dataset, LAMBDA e : e.ticker \notin scanned)
       IN  /\ processed_tickers' = scanned
           /\ filtered_dataset' = todo
           /\ loopIndex' = 1
           /\ runPc' = IF todo = <<>> THEN "done" ELSE "prelude"
    /\ UNCHANGED <<outfile, startLines, dataset, overall_result, stageLog>>
    /\ UNCHANGED <<splitVars, stageVars, theme_outfiles>>

\* _main before its tasks: get_company_name returns, the custom_id is made
MainPrelude ==
    /\ runPc = "prelude"
    /\ overall_result' = NoRecord
    /\ runPc' = "process_overall"
    /\ UNCHANGED <<outfile, startLines, dataset, processed_tickers,
                   filtered_dataset, loopIndex, stageLog>>
    /\ UNCHANGED <<splitVars, stageVars, theme_outfiles>>

\* requests.get inside get_company_name raises (no connection, a timeout):
\* nothing between _main and asyncio.run catches it, the run ends
CompanyLookupRaises ==
    /\ runPc = "prelude"
    /\ runPc' = "aborted"
    /\ UNCHANGED <<outfile, startLines, dataset, processed_tickers,
                   filtered_dataset, loopIndex, overall_result, stageLog>>
    /\ UNCHANGED <<splitVars, stageVars, theme_outfiles>>

StageCall(stageName) ==
    [stage |-> stageName, ticker |-> example.ticker, key |-> "overall"]

\* process_overall up to its first await: skip a processed ticker, else call
\* fetch_extracted_output
ProcessOverall ==
    /\ runPc = "process_overall"
    /\ IF example.ticker \in processed_tickers
       THEN runPc' = "save" /\ UNCHANGED stageLog
       ELSE /\ runPc' = "extracting"
            /\ stageLog' = Append(stageLog, StageCall("extraction"))
    /\ UNCHANGED <<outfile, startLines, dataset, processed_tickers,
                   filtered_dataset, loopIndex, overall_result>>
    /\ UNCHANGED <<splitVars, stageVars, theme_outfiles>>

\* the "except Exception" of process_overall
ErrorRecord == [custom_id |-> CustomIdOf(example), kind |-> "error"]

\* fetch_extracted_output returns: process_overall calls fetch_filtered_output
ExtractionReturns ==
    /\ runPc = "extracting"
    /\ runPc' = "filtering"
    /\ stageLog' = Append(stageLog, StageCall("filtering"))
    /\ UNCHANGED <<outfile, startLines, dataset, processed_tickers,
                   filtered_dataset, loopIndex, overall_result>>
    /\ UNCHANGED <<splitVars, stageVars, theme_outfiles>>

\* fetch_extracted_output raises
ExtractionRaises ==
    /\ runPc = "extracting"
    /\ overall_result' = ErrorRecord
    /\ runPc' = "save"
    /\ UNCHANGED <<outfile, startLines, dataset, processed_tickers,
                   filtered_dataset, loopIndex, stageLog>>
    /\ UNCHANGED <<splitVars, stageVars, theme_outfiles>>

\* fetch_filtered_output returns: the result record is made
FilteringReturns ==
    /\ runPc = "filtering"
    /\ overall_result' = [custom_id |-> CustomIdOf(example), kind |-> "result"]
    /\ runPc' = "save"
    /\ UNCHANGED <<outfile, startLines, dataset, processed_tickers,
                   filtered_dataset, loopIndex, stageLog>>
    /\ UNCHANGED <<splitVars, stageVars, theme_outfiles>>

\* fetch_filtered_output raises
FilteringRaises ==
    /\ runPc = "filtering"
    /\ overall_result' = ErrorRecord
    /\ runPc' = "save"
    /\ UNCHANGED <<outfile, startLines, dataset, processed_tickers,
                   filtered_dataset, loopIndex, stageLog>>
    /\ UNCHANGED <<splitVars, stageVars, theme_outfiles>>

\* faulty variant: the output file is opened with "w", the record replaces
\* what the file held
SaveResultsOverwriting ==
    /\ runPc = "save"
    /\ outfile' = IF overall_result # NoRecord
                  THEN <<overall_result>> ELSE outfile
    /\ loopIndex' = loopIndex + 1
    /\ runPc' = IF loopIndex = Len(filtered_dataset) THEN "done" ELSE "prelude"
    /\ UNCHANGED <<startLines, dataset, processed_tickers, filtered_dataset,
                   overall_result, stageLog>>
    /\ UNCHANGED <<splitVars, stageVars, theme_outfiles>>

\* main after _main returns: append the record if there is one and every
\* record of theme_results, go on with the next example
SaveResults ==
    /\ runPc = "save"
    /\ outfile' = IF overall_result # NoRecord
                  THEN Append(outfile, overall_result) ELSE outfile
    /\ loopIndex' = loopIndex + 1
    /\ runPc' = IF loopIndex = Len(filtered_dataset) THEN "done" ELSE "prelude"
    /\ UNCHANGED <<startLines, dataset, processed_tickers, filtered_dataset,
                   overall_result, stageLog>>
    /\ theme_outfiles' =
          [key \in ThemeKeys |->
              IF key \in DOMAIN theme_results
              THEN Append(theme_outfiles[key], theme_results[key])
              ELSE theme_outfiles[key]]
    /\ UNCHANGED <<splitVars, stageVars>>

NextRun ==
    \/ LoadProcessed
    \/ MainPrelude
    \/ CompanyLookupRaises
    \/ ProcessOverall
    \/ ExtractionReturns
    \/ ExtractionRaises
    \/ FilteringReturns
    \/ FilteringRaises
    \/ SaveResults

SpecRun == InitRun /\ [][NextRun]_vars

-----------------------------------------------------------------------------
(* SpecOrchestrator: the orchestrator at its two levels, the loop of main  *)
(* over the dataset (SpecRun) and the two stage calls of one pair with     *)
(* their chunk tasks (SpecPipe)                                            *)

InitOrchestrator == InitRun \/ InitPipe

NextOrchestrator == NextRun \/ NextPipe

SpecOrchestrator == InitOrchestrator /\ [][NextOrchestrator]_vars

-----------------------------------------------------------------------------
(* Claims about the chunkers *)

\* C8: for every non-empty list L and every n with 1 <= n <= len(L), the
\* sublists returned by split_list_into_n(L, n), concatenated in emitted
\* order, are exactly L.
C8_ListChunksReconstruct ==
    (splitPc = "list_done" /\ lst # <<>> /\ 1 <= n /\ n <= Len(lst))
        => Concat(parts) = lst

\* a list of two different items split into several sublists
C8_Witness ==
    /\ splitPc = "list_done"
    /\ Len(lst) >= 3 /\ n >= 2 /\ n <= Len(lst)
    /\ Len(lst) % n # 0
    /\ \E i, j \in 1..Len(lst) : lst[i] # lst[j]
    /\ Len(parts) = n

\* number of lines of a text: the measure by which a transcript has k lines
LineCount(t) == Len(StrSplit(t, NL))

PartSizesAsClaimed ==
    LET k == LineCount(text)
    IN  /\ Len(parts) = n
        /\ \A i \in 1..(n - 1) : LineCount(parts[i]) = k \div n
        /\ LineCount(parts[n]) = (k \div n) + (k % n)

\* C9 as stated: for a transcript of k lines and every n >= 2 there are
\* exactly n parts, the first n-1 of floor(k/n) lines and the last of
\* floor(k/n) + (k mod n) lines.
C9_PartSizesAnyN ==
    (splitPc = "text_done" /\ n >= 2) => PartSizesAsClaimed

\* C9 amended: the part sizes are as claimed whenever 2 <= n <= k.
C9_PartSizes ==
    (splitPc = "text_done" /\ n >= 2 /\ n <= LineCount(text))
        => PartSizesAsClaimed

\* a transcript whose line count is not a multiple of n
C9_Witness ==
    /\ splitPc = "text_done"
    /\ n >= 2 /\ n <= LineCount(text)
    /\ LineCount(text) % n # 0

\* C10 as stated: for every text and every n >= 2 the parts joined with
\* "\n" give back the text.
C10_RejoinAnyN ==
    (splitPc = "text_done" /\ n >= 2) => StrJoin(parts, NL) = text

\* C10 amended: the parts joined with "\n" give back the text whenever
\* 2 <= n <= k, k the number of lines of the text.
C10_Rejoin ==
    (splitPc = "text_done" /\ n >= 2 /\ n <= LineCount(text))
        => StrJoin(parts, NL) = text

\* a text with an empty line and a remainder, split and rejoined
C10_Witness ==
    /\ splitPc = "text_done"
    /\ n >= 2 /\ n < LineCount(text)
    /\ LineCount(text) % n # 0
    /\ \E i \in 1..Len(text) : text[i] # NL
    /\ StrJoin(parts, NL) = text

-----------------------------------------------------------------------------
(* Claims about one stage call *)

Range(f) == {f[i] : i \in DOMAIN f}

\* the call has returned its Result
Returned == stage \in {"extracted", "filtered"}

\* the Result the call returned
ReturnedResult == IF stage = "extracted" THEN extract_result ELSE filter_result

\* the chunk task whose chunk holds the sentence or quote x
TaskHolding(x) == CHOOSE t \in 1..Len(tasks) : x \in Range(tasks[t].items)

\* C1: for every completion order of the chunk tasks of one extraction or
\* filtering call, the merged Result is the concatenation of the per-chunk
\* quote lists (and score lists) in task-submission order: no quote of an
\* earlier chunk comes after a quote of a later chunk.
C1_MergeInSubmissionOrder ==
    Returned =>
        LET r == ReturnedResult
        IN  /\ r.quotes = Concat([t \in 1..Len(tasks) |-> tasks[t].quotes])
            /\ r.sentiment_scores = Concat([t \in 1..Len(tasks) |-> tasks[t].scores])
            /\ \A i, j \in 1..Len(r.quotes) :
                  i < j => TaskHolding(r.quotes[i]) <= TaskHolding(r.quotes[j])

\* a filtering call whose second chunk task completed before its first, both
\* with quotes and scores in the merged Result
C1_Witness ==
    /\ stage = "filtered"
    /\ Len(doneOrder) >= 2
    /\ doneOrder[1] > doneOrder[2]
    /\ \A k \in 1..2 : /\ tasks[doneOrder[k]].quotes # <<>>
                       /\ tasks[doneOrder[k]].scores # <<>>
    /\ Len(filter_result.quotes) >= 2

\* C2: whichever chunk tasks have their provider call or parse step raise,
\* no exception reaches the caller of the stage, a failing chunk contributes
\* no quote and no score, and every quote of a non-failing sibling chunk is
\* in the merged Result.
C2_ChunkFailuresContained ==
    /\ stage = "raised" => callLog = <<>>
    /\ \A t \in 1..Len(tasks) :
          tasks[t].raised => tasks[t].quotes = <<>> /\ tasks[t].scores = <<>>
    /\ Returned =>
          \A t \in 1..Len(tasks) :
              ~tasks[t].raised =>
                  Range(tasks[t].quotes) \subseteq Range(ReturnedResult.quotes)

\* a returned call with a failed chunk task and a sibling whose quotes are
\* in the Result
C2_Witness ==
    /\ Returned
    /\ \E t, u \in 1..Len(tasks) :
          /\ tasks[t].raised
          /\ ~tasks[u].raised /\ tasks[u].quotes # <<>>
          /\ Range(tasks[u].quotes) \subseteq Range(ReturnedResult.quotes)

\* C3: a provider client method whose transport raises on every attempt
\* returns the default empty completion after the configured number of
\* attempts and does not raise.
C3_TransportErrorGivesDefault ==
    \A k \in 1..Len(callLog) :
        callLog[k].transport = "raised" =>
            callLog[k].outcome = "default" /\ callLog[k].attempts = max_retries

\* the chunk's sentences at the returned indices base .. base + m - 1, in the
\* order returned
SentencesAt(task, base) ==
    LET m == Len(task.items)
        hit == SelectSeq(task.out.indices, LAMBDA i : base <= i /\ i < base + m)
    IN  [k \in 1..Len(hit) |-> task.items[hit[k] - base + 1]]

\* an extraction chunk task that got a list of indices from the provider
GotIndices(t) ==
    /\ stage \in {"extracting", "extracted"}
    /\ tasks[t].pc = "done"
    /\ tasks[t].out.parsed

\* C4 as stated: for a chunk of size m exactly the returned indices in
\* 0..m-1 contribute the sentence at that position, and nothing raises.
C4_IndicesCountFromZero ==
    \A t \in 1..Len(tasks) :
        GotIndices(t) =>
            ~tasks[t].raised /\ tasks[t].quotes = SentencesAt(tasks[t], 0)

\* C4 amended: for an innermost chunk holding the sentences start ..
\* start + m - 1 of its transcript part, exactly the returned indices in
\* start .. start + m - 1 contribute the sentence with that index; every
\* other index is ignored and nothing raises.
C4_IndicesCountFromStart ==
    \A t \in 1..Len(tasks) :
        GotIndices(t) =>
            ~tasks[t].raised
                /\ tasks[t].quotes = SentencesAt(tasks[t], tasks[t].start)

\* a second inner chunk that was sent an index of its own and one outside
C4_Witness ==
    \E t \in 1..Len(tasks) :
        /\ GotIndices(t)
        /\ tasks[t].start > 0
        /\ Len(tasks[t].out.indices) = 2
        /\ Len(tasks[t].quotes) = 1

\* C5: whatever the provider selector, every request of a filtering call
\* goes to the OpenAI client: the Groq and Furiosa call counts stay as they
\* were.
C5_FilteringCallsOpenAIOnly ==
    /\ \A k \in 1..Len(callLog) :
          callLog[k].phase = "filtering" => callLog[k].client = "openai"
    /\ stage \in {"call_filter", "filtering", "filtered"} =>
          Calls("groq") = 0 /\ Calls("furiosa") = 0

\* a filtering call made with a non-OpenAI selector that sent requests
C5_Witness ==
    /\ stage = "filtered"
    /\ fetch_type \in {"groq", "furiosa"}
    /\ Calls("openai") >= 2
    /\ filter_result.quotes # <<>>

-----------------------------------------------------------------------------
(* Claims about a run of the batch driver *)

\* the tickers that had a record in the output file when the run started
TickersOnFileAtStart ==
    {e.ticker : e \in {x \in Examples :
        \E k \in 1..startLines : outfile[k].custom_id = CustomIdOf(x)}}

\* the tickers of the lines the run has added to the file
TickersAdded ==
    {e.ticker : e \in {x \in Examples :
        \E k \in (startLines + 1)..Len(outfile) :
            outfile[k].custom_id = CustomIdOf(x)}}

\* C6: for every ticker T that has a record task-T-YY-MM-DD-batch in the
\* output file when the run starts, the run calls neither the extraction nor
\* the filtering stage for T and adds no line for T to the file.
C6_ProcessedTickerNotRerun ==
    \A T \in TickersOnFileAtStart :
        /\ \A k \in 1..Len(stageLog) : stageLog[k].ticker # T
        /\ T \notin TickersAdded

\* C7: an exception at any step of the per-ticker run of one transcript
\* never ends the run: the run does not abort, and when it is over every
\* transcript it had to process has its record in the file, in order.
C7_FailureNeverAbortsBatch ==
    /\ runPc # "aborted"
    /\ runPc = "done" =>
          /\ Len(outfile) = startLines + Len(filtered_dataset)
          /\ \A k \in 1..Len(filtered_dataset) :
                outfile[startLines + k].custom_id = CustomIdOf(filtered_dataset[k])

-----------------------------------------------------------------------------
(* Claims about the chained stage calls *)

\* the chunk tasks of a stage call that sent a request
TaskIds(phase) ==
    {callLog[k].task : k \in {j \in 1..Len(callLog) : callLog[j].phase = phase}}

\* the requests of chunk task t of a stage call that came back with a parsed
\* output
Answered(phase, t) ==
    {k \in 1..Len(callLog) :
        /\ callLog[k].phase = phase /\ callLog[k].task = t
        /\ callLog[k].answer.parsed}

\* the parsed output chunk task t of a stage call got
AnswerOf(phase, t) == callLog[CHOOSE k \in Answered(phase, t) : TRUE].answer

\* position in the whole list of the first item of the t-th chunk when the
\* list is one part
OffsetOf(t) == (t - 1) * max_size

\* how many items the t-th chunk of a list of len items holds
SizeOf(t, len) == Min(max_size, len - OffsetOf(t))

\* every extraction chunk of the one part got indices, all of them numbers
\* of sentences of that chunk
ExtractionInRange(s) ==
    /\ TaskIds("extracting") = 1..((Len(s) + max_size - 1) \div max_size)
    /\ \A t \in TaskIds("extracting") :
          /\ Answered("extracting", t) # {}
          /\ \A k \in 1..Len(AnswerOf("extracting", t).indices) :
                LET i == AnswerOf("extracting", t).indices[k]
                IN  OffsetOf(t) <= i /\ i < OffsetOf(t) + SizeOf(t, Len(s))

\* the indices the extraction provider returned, chunk after chunk
ReturnedIndices ==
    Concat([t \in 1..Cardinality(TaskIds("extracting")) |->
                AnswerOf("extracting", t).indices])

\* every filtering chunk of the one part got related indices, all of them
\* positions of the chunk, and as many scores
FilteringInRange(q) ==
    /\ TaskIds("filtering") = 1..((Len(q) + max_size - 1) \div max_size)
    /\ \A t \in TaskIds("filtering") :
          /\ Answered("filtering", t) # {}
          /\ LET a == AnswerOf("filtering", t)
             IN  /\ Len(a.sentiment_scores) = Len(a.related_indices)
                 /\ \A k \in 1..Len(a.related_indices) :
                       /\ 0 <= a.related_indices[k]
                       /\ a.related_indices[k] < SizeOf(t, Len(q))

\* the related indices the filtering provider returned, chunk after chunk,
\* as positions in the whole quote list
ReturnedRelated ==
    Concat([t \in 1..Cardinality(TaskIds("filtering")) |->
                [k \in 1..Len(AnswerOf("filtering", t).related_indices) |->
                    OffsetOf(t) + AnswerOf("filtering", t).related_indices[k]]])

\* the scores the filtering provider returned, chunk after chunk
ReturnedScores ==
    Concat([t \in 1..Cardinality(TaskIds("filtering")) |->
                AnswerOf("filtering", t).sentiment_scores])

\* C11: with num_split = 1, when the extraction provider returns in-range
\* indices I for a transcript with sentences s and the filtering provider
\* returns in-range related indices R with as many scores S, the final
\* Result has quotes = [s[I[r]] for r in R], in that order, and
\* sentiment_scores = S.
C11_EndToEnd ==
    LET s == get_sentences(transcript)
        I == ReturnedIndices
        q == [k \in 1..Len(I) |-> s[I[k] + 1]]
        R == ReturnedRelated
    IN  (/\ stage = "filtered" /\ num_split = 1
         /\ ExtractionInRange(s) /\ FilteringInRange(q))
        => /\ filter_result.quotes = [k \in 1..Len(R) |-> q[R[k] + 1]]
           /\ filter_result.sentiment_scores = ReturnedScores

\* a finished pipeline with num_split = 1 where both providers answered in
\* range and out of order, and two quotes came through
C11_Witness ==
    /\ stage = "filtered" /\ num_split = 1
    /\ ExtractionInRange(get_sentences(transcript))
    /\ ReturnedIndices = <<1, 0>>
    /\ FilteringInRange(quotes)
    /\ ReturnedRelated = <<1, 0>>
    /\ Len(filter_result.quotes) = 2

-----------------------------------------------------------------------------
(* Claims about a stage call without a theme *)

\* a theme-mode call made with a null theme
NullThemeCall == extraction_type = "theme" /\ theme = None

\* the call's input gives no chunk: no sentence in the text, no quote
NoChunk == Concat(ExtractionChunks) = <<>> /\ Concat(FilteringChunks) = <<>>

\* the call has got past its arguments
CallStarted == stage \notin {"call_extract", "call_filter"}

\* C12: every theme-mode extraction or filtering call made with a null
\* theme, for every input text or quote list, raises ValueError to its
\* caller, and no request is issued or retried.
C12_NullThemeAlwaysRaises ==
    NullThemeCall /\ CallStarted => stage = "raised" /\ callLog = <<>>

\* C13 as stated: the missing-theme error is caught at the chunk level, so
\* the stage call returns a Result instead of raising.
C13_NullThemeCaughtInChunk ==
    NullThemeCall => stage # "raised"

\* C13 amended: the missing-theme error raised inside a chunk task is not
\* caught at the chunk level: the stage call raises, no chunk task gives a
\* partial result, no request is issued and no Result is returned.
C13_NullThemeLeavesTheCall ==
    NullThemeCall /\ CallStarted /\ ~NoChunk =>
        /\ stage = "raised"
        /\ tasks = <<>> /\ callLog = <<>>
        /\ extract_result = NoResult /\ filter_result = NoResult

\* a filtering call of two quotes in two chunks, without a theme, that raised
C13_Witness ==
    /\ NullThemeCall
    /\ stage = "raised"
    /\ Len(quotes) = 2 /\ num_split = 2

-----------------------------------------------------------------------------
(* Claims about the state machine of a pair *)

\* where the overall pipeline of the i-th transcript of the run stands
PairState(i) ==
    IF i < loopIndex
    THEN IF outfile[startLines + i].kind = "result" THEN "DONE" ELSE "ERROR"
    ELSE IF i > loopIndex THEN "UNPROCESSED"
    ELSE CASE runPc = "extracting" -> "EXTRACTING"
           [] runPc = "filtering" -> "FILTERING"
           [] runPc = "save" /\ overall_result.kind = "result" -> "DONE"
           [] runPc = "save" /\ overall_result.kind = "error" -> "ERROR"
           [] OTHER -> "UNPROCESSED"

PairMoves ==
    {<<"UNPROCESSED", "EXTRACTING">>, <<"EXTRACTING", "FILTERING">>,
     <<"FILTERING", "DONE">>, <<"EXTRACTING", "ERROR">>,
     <<"FILTERING", "ERROR">>}

\* the order of the two stage calls of a pair; a call that raises before its
\* first await goes to "raised" in the step that makes it
StageMoves ==
    {<<"call_extract", "extracting">>, <<"call_extract", "raised">>,
     <<"extracting", "extracted">>, <<"extracted", "filtering">>,
     <<"extracted", "raised">>, <<"filtering", "filtered">>}

\* every extraction chunk task has completed: the extraction call has
\* returned and none of its requests is in flight
ExtractionComplete ==
    /\ extract_result.set
    /\ \A j \in 1..Len(callLog) :
          callLog[j].phase = "extracting" => callLog[j].transport # "inflight"

-----------------------------------------------------------------------------
(* Claims about the output file *)

\* a pipeline of the run is under way
PipelineRunning ==
    runPc \in {"prelude", "process_overall", "extracting", "filtering"}

\* C15: whenever the pipeline of a transcript finishes, with a result or an
\* error, exactly one line, its record, is appended to the output file
\* before the next pipeline starts, and every line that was in the file
\* stays unchanged and in its position.
C15_OneAppendPerPipeline ==
    /\ [][/\ Len(outfile') >= Len(outfile)
          /\ SubSeq(outfile', 1, Len(outfile)) = outfile
          /\ runPc = "save" /\ overall_result # NoRecord =>
                outfile' = Append(outfile, overall_result)
          /\ runPc # "save" => outfile' = outfile]_vars
    /\ [](PipelineRunning => Len(outfile) = startLines + loopIndex - 1)

\* a run over a file that held a line has finished two pipelines, one with
\* an error and one with a result, and the file holds their lines after the
\* old one
C15_Witness ==
    /\ runPc = "done"
    /\ startLines = 1 /\ Len(outfile) = 3
    /\ outfile[2].kind = "error" /\ outfile[3].kind = "result"

\* the tickers of the dataset
DatasetTickers == {dataset[k].ticker : k \in 1..Len(dataset)}

\* the lines of the file whose record is the record of ticker T
LinesOf(T) ==
    {k \in 1..Len(outfile) :
        \E e \in Examples : e.ticker = T /\ outfile[k].custom_id = CustomIdOf(e)}

\* the file the run started with is what a run over the same dataset, begun
\* with an empty file and interrupted between two appends, left behind
StartedFromInterruptedRun ==
    /\ startLines <= Len(dataset)
    /\ \A k \in 1..startLines : outfile[k].custom_id = CustomIdOf(dataset[k])

\* C16: a run interrupted between two appends and then re-run to completion
\* over the same dataset (one transcript per ticker) leaves exactly one
\* record for every ticker of the dataset in the output file.
C16_ResumeGivesOneRecordPerTicker ==
    (/\ runPc = "done"
     /\ StartedFromInterruptedRun
     /\ Cardinality(DatasetTickers) = Len(dataset))
    => \A T \in DatasetTickers : Cardinality(LinesOf(T)) = 1

-----------------------------------------------------------------------------
(* Claims about the Result of the filtering stage *)

\* the (quote, score) pairs the provider gave chunk task t: the quote a
\* related index points at, with the score at the same position
ScoredQuotes(t) ==
    LET a == tasks[t].out
        js == SelectSeq([j \in 1..Len(a.related_indices) |-> j],
                        LAMBDA j : /\ a.related_indices[j] < Len(tasks[t].items)
                                   /\ j <= Len(a.sentiment_scores))
    IN  IF tasks[t].raised \/ ~a.parsed THEN <<>>
        ELSE [k \in 1..Len(js) |->
                <<PyIndex(tasks[t].items, a.related_indices[js[k]]),
                  a.sentiment_scores[js[k]]>>]

\* C17: in every Result the filtering stage returns, quotes and
\* sentiment_scores have the same length and sentiment_scores[k] is the
\* score the provider gave for the quote at quotes[k], whatever the provider
\* answered.
C17_ScoresAlignedWithQuotes ==
    stage = "filtered" =>
        LET given == Concat([t \in 1..Len(tasks) |-> ScoredQuotes(t)])
        IN  /\ Len(filter_result.quotes) = Len(filter_result.sentiment_scores)
            /\ Len(filter_result.quotes) = Len(given)
            /\ \A k \in 1..Len(given) :
                  <<filter_result.quotes[k], filter_result.sentiment_scores[k]>>
                      = given[k]

\* C18: every element of sentiment_scores in a Result of the filtering stage
\* is one of -1, 0, 1, whatever integers the provider's response holds.
C18_ScoresInRange ==
    filter_result.set =>
        \A k \in 1..Len(filter_result.sentiment_scores) :
            filter_result.sentiment_scores[k] \in {-1, 0, 1}

-----------------------------------------------------------------------------
(* Claims about the custom_id *)

\* C19: for every ticker and event date, the custom_id
\* task-{TICKER}-{YY}-{MM}-{DD}-{file_name} gives back the same ticker
\* (field 1) and the same event date (fields 2 to 4) when it is split on "-"
\* at fixed positions, as the resume scan and the downstream readers do.
C19_CustomIdRoundTrip ==
    \A k \in (startLines + 1)..Len(outfile) :
        LET written == filtered_dataset[k - startLines]
            cid == outfile[k].custom_id
        IN  /\ cid = CustomIdOf(written)
            /\ existing_ticker(cid) = written.ticker
            /\ event_date_of(cid) = SubSeq(written.event_start_at_et, 1, 10)

-----------------------------------------------------------------------------
(* Claims about the themes *)

\* the stage calls of the run for ticker T and a theme key, in order
CallsFor(T, key) ==
    LET mine == SelectSeq(stageLog, LAMBDA c : c.ticker = T /\ c.key = key)
    IN  [k \in 1..Len(mine) |-> mine[k].stage]

\* the file of a theme key holds a record of ticker T
HasThemeRecord(T, key) ==
    \E k \in 1..Len(theme_outfiles[key]) : \E e \in Examples :
        e.ticker = T /\ theme_outfiles[key][k].custom_id = CustomIdOf(e)

\* C20: for every theme key of the theme table and every transcript whose
\* ticker is not yet processed for that theme, a run performs extraction and
\* then filtering for the pair and appends one record to the theme's file:
\* when the run is over every ticker of the dataset has its record there.
C20_ThemesProcessed ==
    runPc = "done" =>
        \A key \in ThemeKeys : \A T \in DatasetTickers :
            /\ HasThemeRecord(T, key)
            /\ CallsFor(T, key) \in {<<>>, <<"extraction", "filtering">>}

-----------------------------------------------------------------------------
(* Claims about fetch_parsed *)

\* the requests fetch_parsed issued for chunk task t of a phase
RequestsOf(phase, t) ==
    {k \in 1..Len(callLog) : callLog[k].phase = phase /\ callLog[k].task = t}

\* the provider request k was answered by the provider
ProviderSucceeded(k) ==
    /\ callLog[k].client \in {"groq", "furiosa"}
    /\ callLog[k].transport = "returned"

\* C21: for fetch_type groq or furiosa, once the provider's request has
\* succeeded fetch_parsed has issued exactly one request to that provider and
\* after it exactly one to the OpenAI canonicalizer, and what the chunk task
\* got is the canonicalizer's parsed object; for fetch_type openai it issues
\* exactly one OpenAI request and none to another client.
C21_TwoStepIndirection ==
    \A k \in 1..Len(callLog) :
        LET mine == RequestsOf(callLog[k].phase, callLog[k].task)
        IN  /\ ProviderSucceeded(k) =>
                /\ {j \in mine : callLog[j].client = callLog[k].client} = {k}
                /\ \E c \in mine :
                      /\ c > k
                      /\ callLog[c].method = "fetch_parsed_output"
                      /\ mine = {k, c}
            /\ callLog[k].method = "fetch_parsed_completion" =>
                /\ mine = {k}
                /\ callLog[k].client = "openai"
            /\ callLog[k].method = "fetch_parsed_output" =>
                \A t \in 1..Len(tasks) :
                    (tasks[t].call = k /\ tasks[t].out.parsed) =>
                        tasks[t].out = callLog[k].answer

\* the same for groq and openai alone
C21_GroqAndOpenAI ==
    fetch_type # "furiosa" => C21_TwoStepIndirection

-----------------------------------------------------------------------------
(* Claims about the width of the fan-out *)

\* the requests that have been issued and have neither returned nor raised
InFlight == {k \in 1..Len(callLog) : callLog[k].transport = "inflight"}

CeilDiv(a, b) == (a + b - 1) \div b

RECURSIVE SumOf(_)
SumOf(ns) == IF ns = <<>> THEN 0 ELSE Head(ns) + SumOf(Tail(ns))

\* how many chunk tasks the running call starts: per part, one for every
\* max_size sentences (quotes) or fraction of it
FanOutWidth ==
    IF stage = "extracting"
    THEN LET split_texts == split_transcript_into_n(transcript, num_split)
         IN  SumOf([o \in 1..Len(split_texts) |->
                       CeilDiv(Len(get_sentences(split_texts[o])), max_size)])
    ELSE IF stage = "filtering"
    THEN LET split_quotes == split_list_into_n(quotes, num_split)
         IN  SumOf([o \in 1..Len(split_quotes) |->
                       CeilDiv(Len(split_quotes[o]), max_size)])
    ELSE 0

\* C22 as stated: within one extraction or filtering call the number of
\* provider requests in flight at the same time never exceeds num_split.
C22_InFlightWithinNumSplit == Cardinality(InFlight) <= num_split

\* C22 as the code has it: the number of requests in flight never exceeds
\* the number of chunk tasks of the call, one for every max_size sentences
\* (quotes) of every part, whatever num_split is.
C22_InFlightWithinFanOut == Cardinality(InFlight) <= FanOutWidth

\* a call whose requests in flight are as many as its chunk tasks and more
\* than num_split
C22_Witness ==
    /\ Cardinality(InFlight) > num_split
    /\ Cardinality(InFlight) = FanOutWidth

-----------------------------------------------------------------------------
(* Claims about the usage list *)

\* C23: the usage list a stage call returns is flat, with one element, a
\* usage dict, for each innermost chunk task of the call: it has as many
\* elements as the call had chunk tasks.
C23_UsageListFlat ==
    Returned => Len(ReturnedResult.usages) = Len(tasks)

\* what the stage call returns instead: one element per part, each the list
\* of the usage dicts of the part's chunk tasks
C23_UsageListPerPart ==
    Returned =>
        /\ Len(ReturnedResult.usages) = Len(outerRet)
        /\ Concat(ReturnedResult.usages) = [t \in 1..Len(tasks) |-> tasks[t].usage]

-----------------------------------------------------------------------------
(* Claims about what concurrent chunk tasks share *)

\* chunk task t of the running call has started and has not returned
Running(t) == stage \in {"extracting", "filtering"} /\ tasks[t].pc # "done"

\* the files chunk task t of the running call has written
FilesWrittenBy(t) ==
    {fileWrites[k].file :
        k \in {j \in 1..Len(fileWrites) :
                  fileWrites[j].task = t /\ fileWrites[j].phase = stage}}

\* the merged Result of a part and of the call is written after the chunk
\* tasks it merges have returned
MergedAfterChunkTasks ==
    /\ \A o \in 1..Len(outerRet) :
          (stage \in {"extracting", "filtering"} /\ outerRet[o].done) =>
              \A t \in TasksOf(o) : tasks[t].pc = "done"
    /\ Returned => \A t \in 1..Len(tasks) : tasks[t].pc = "done"

\* C24: no two chunk tasks of a stage that run at the same time read or
\* write the same mutable resource, and the merged Result is written only
\* after the tasks have finished.
C24_NoSharedMutableResource ==
    /\ \A t1, t2 \in 1..Len(tasks) :
          (t1 # t2 /\ Running(t1) /\ Running(t2)) =>
              FilesWrittenBy(t1) \cap FilesWrittenBy(t2) = {}
    /\ MergedAfterChunkTasks

-----------------------------------------------------------------------------
(* Claims about error records and the resume scan *)

\* the tickers whose record in the file the run started with is an error
\* record: custom_id and error, no result payload
ErrorTickersAtStart ==
    {e.ticker : e \in {x \in Examples :
        \E k \in 1..startLines :
            /\ outfile[k].custom_id = CustomIdOf(x)
            /\ outfile[k].kind = "error"}}

\* the run makes no stage call and adds no line for ticker T
NotProcessedAgain(T) ==
    /\ \A k \in 1..Len(stageLog) : stageLog[k].ticker # T
    /\ T \notin TickersAdded

\* C25: a ticker whose earlier run ended in ERROR counts as processed in the
\* resume scan: a later run over the same output file makes no stage call
\* and adds no line for it.
C25_ErrorTickerNotRetried ==
    \A T \in ErrorTickersAtStart :
        /\ runPc # "start" => T \in processed_tickers
        /\ NotProcessedAgain(T)

\* the same for the tickers that hold no "-"
C25_PlainErrorTickerNotRetried ==
    \A T \in ErrorTickersAtStart :
        "-" \notin Range(T) =>
            /\ runPc # "start" => T \in processed_tickers
            /\ NotProcessedAgain(T)

-----------------------------------------------------------------------------
(* Claims about related indices outside the chunk *)

\* the filtering chunk tasks that got a parsed output
FilteringAnswered ==
    {t \in 1..Len(tasks) :
        /\ stage \in {"filtering", "filtered"}
        /\ tasks[t].pc = "done"
        /\ callLog[tasks[t].call].answer.parsed}

\* the quotes the indices within 0..m-1 select, in the order of the indices
InRangeQuotes(items, related_indices) ==
    LET kept == SelectSeq(related_indices, LAMBDA i : i >= 0 /\ i < Len(items))
    IN  [k \in 1..Len(kept) |-> items[kept[k] + 1]]

\* C26: in a filtering chunk task over m quotes a returned related index
\* outside 0..m-1 contributes no quote, raises no exception and leaves the
\* contribution of the in-range indices as it is: the task returns exactly
\* the quotes its in-range indices select.
C26_OutOfRangeIndexIgnored ==
    \A t \in FilteringAnswered :
        /\ ~tasks[t].raised
        /\ tasks[t].quotes =
              InRangeQuotes(tasks[t].items,
                            callLog[tasks[t].call].answer.related_indices)

\* the same for the responses without a negative index
C26_IndexBeyondChunkIgnored ==
    \A t \in FilteringAnswered :
        LET related == callLog[tasks[t].call].answer.related_indices
        IN  (\A k \in 1..Len(related) : related[k] >= 0) =>
                /\ ~tasks[t].raised
                /\ tasks[t].quotes = InRangeQuotes(tasks[t].items, related)

-----------------------------------------------------------------------------
(* Claims about where the quotes of a Result come from *)

\* a filtering response of the call that held a negative index or one beyond
\* its chunk
OddFilteringAnswer ==
    \E t \in FilteringAnswered :
        LET related == callLog[tasks[t].call].answer.related_indices
        IN  \E k \in 1..Len(related) :
                related[k] < 0 \/ related[k] >= Len(tasks[t].items)

\* C27: no stage emits text that was not in its input, whatever the
\* providers answer: every quote of an extraction Result is a sentence
\* segmented from the input text, every quote of a filtering Result is an
\* element of the quote list handed to the filtering call.
C27_QuotesComeFromInput ==
    /\ extract_result.set =>
          Range(extract_result.quotes) \subseteq Range(get_sentences(transcript))
    /\ filter_result.set =>
          Range(filter_result.quotes) \subseteq Range(quotes)

\* an extraction and a filtering call have returned quotes, the filtering
\* one after a response with an index outside its chunk
C27_Witness ==
    /\ extract_result.set /\ extract_result.quotes # <<>>
    /\ filter_result.set /\ filter_result.quotes # <<>>
    /\ OddFilteringAnswer

-----------------------------------------------------------------------------
(* Claims about empty inputs *)

\* the requests of a phase
RequestsIn(phase) == {k \in 1..Len(callLog) : callLog[k].phase = phase}

\* a Result with no quotes and no scores
EmptyResult(r) == r.quotes = <<>> /\ r.sentiment_scores = <<>>

\* C28: an extraction call on a text that segments into zero sentences and
\* a filtering call on an empty quote list issue no provider request,
\* return a Result with no quotes and no scores, and do not raise.
C28_EmptyInputNoCall ==
    /\ get_sentences(transcript) = <<>> =>
          /\ RequestsIn("extracting") = {}
          /\ extract_result.set => EmptyResult(extract_result)
    /\ quotes = <<>> =>
          /\ RequestsIn("filtering") = {}
          /\ filter_result.set => EmptyResult(filter_result)
    /\ (get_sentences(transcript) = <<>> /\ quotes = <<>>) => stage # "raised"

\* an extraction call on a text of empty lines has returned, with two parts
\* and a theme call that names no theme
C28_Witness ==
    /\ stage = "extracted"
    /\ transcript = <<NL>> /\ num_split = 2
    /\ extraction_type = "theme" /\ theme = None

\* a filtering call on no quotes has returned
C28_FilteringOnNothing == stage = "filtered" /\ quotes = <<>>

-----------------------------------------------------------------------------
(* Claims about the fetch_type of the run and the overall pipeline *)

\* the running pipeline is the one process_overall runs
OverallPipeline ==
    /\ extraction_type = "overall"
    /\ stage \in {"call_extract", "extracting", "extracted", "filtering",
                  "filtered"}

\* what a request is: its client, method, chunk task and phase
RequestOf(call) ==
    [client |-> call.client, method |-> call.method, task |-> call.task,
     phase |-> call.phase]

\* the requests of a phase in the order they were issued
RequestsIssued(phase) ==
    LET mine == SelectSeq(callLog, LAMBDA c : c.phase = phase)
    IN  [k \in 1..Len(mine) |-> RequestOf(mine[k])]

\* one OpenAI structured-output request per chunk task, in task order
OpenAIRequests(count, phase) ==
    [t \in 1..count |->
        [client |-> "openai", method |-> "fetch_parsed_completion",
         task |-> t, phase |-> phase]]

-----------------------------------------------------------------------------
(* Claims about termination *)

\* every transcript the run had to process has reached DONE or ERROR
AllSettled ==
    \A i \in 1..Len(filtered_dataset) : PairState(i) \in {"DONE", "ERROR"}

\* the run is over and every transcript has reached DONE or ERROR
RunCompleted == runPc = "done" /\ AllSettled

\* a chunk task waits for its request, which returns or raises
RequestOpen == \E t \in 1..Len(tasks) : Awaiting(t)

\* a gather can be left: every task it waits for has returned
JoinReady ==
    /\ stage \in {"extracting", "filtering"}
    /\ \/ \E o \in 1..Len(outerRet) :
             ~outerRet[o].done /\ \A t \in TasksOf(o) : tasks[t].pc = "done"
       \/ \A o \in 1..Len(outerRet) : outerRet[o].done

\* the caller of the stages can go on: make the extraction call, or hand the
\* extracted quotes to the filtering call
CallReady == stage \in {"call_extract", "extracted"}

\* main or _main can go on
RunReady ==
    runPc \in {"start", "prelude", "process_overall", "extracting",
               "filtering", "save"}

\* nothing is left to do: no provider request is open, no join is pending,
\* no step of a caller or of the run can be taken
AtRest == ~(RequestOpen \/ JoinReady \/ CallReady \/ RunReady)

\* C30: if every provider request eventually returns or raises, every
\* extraction and every filtering call eventually completes its fan-in join
\* and a run over a finite dataset ends with every transcript of the
\* filtered dataset in DONE or ERROR.  Every step of the model is a request
\* returning or raising, a join, or a step of the run that needs no outside
\* event, and no behaviour takes more than finitely many of them, so the
\* claim is: the only states in which nothing is left to do are a
\* pipeline whose filtering call has joined and a completed run.
C30_RestOnlyWhenComplete ==
    AtRest =>
        /\ stage # "unused" => stage = "filtered"
        /\ runPc # "unused" => RunCompleted

\* the same for the calls alone: a pipeline is at rest only when its
\* filtering call has joined
C30_JoinsComplete ==
    (AtRest /\ stage # "unused") => stage = "filtered"

=============================================================================
